---- MODULE Spec2Model ----
(***************************************************************************)
(* A model of the ArtRogue Streamlit port: the museum gateway              *)
(* (utils.fx_search, fx_search_cma, fx_search_met), the result normalizer  *)
(* (utils.fx_search_result) and the chat streaming adapter                 *)
(* (chat.stream_completion, chat.stream_messages), and the page script     *)
(* (app.main) that keeps search results and the selection in session       *)
(* state.                                                                  *)
(*                                                                         *)
(* Each component has its own specification over its own variables; the    *)
(* variables of the other components are frozen at their idle values:      *)
(*   SpecNormalize   one call of fx_search_result                          *)
(*   SpecSearch      one call of fx_search                                 *)
(*   SpecChat        calls of stream_completion / stream_messages          *)
(*   SpecEquiv       stream_completion(p) beside stream_messages([s, p])   *)
(*   SpecApp         the Streamlit page (app.main) under user actions      *)
(***************************************************************************)
EXTENDS Integers, Sequences, FiniteSets, TLC

VARIABLES
    \* ---- result normalizer: one call of fx_search_result
    n_pc,        \* "called" | "returned"
    api_label,   \* the api_label argument
    artwork,     \* the artwork argument, a Python value
    display,     \* the outcome: a returned dict or a raised exception
    \* ---- museum gateway: one call of fx_search
    s_pc,        \* position inside fx_search / fx_search_cma / fx_search_met
    s_label,     \* the api_label argument
    response,    \* body of the primary search response
    sampled,     \* MET: sampled_ids;  CMA: positions of the sampled records
    s_i,         \* MET: index into sampled_ids of the loop
    artworks,    \* the list built (MET) or returned (CMA)
    http_log,    \* every request issued so far, in order
    inflight,    \* requests sent and not yet answered
    outcomes,    \* MET: the outcome of each detail request, in order
    s_raised,    \* TRUE when an exception escaped fx_search
    \* ---- chat adapter
    chat,        \* the process and the generator being consumed
    twin,        \* SpecEquiv: a second process consuming stream_messages
    \* ---- Streamlit page (app.main)
    museum,        \* value of the sidebar selectbox
    session_state, \* st.session_state: results, selected, messages
    fetched_with,  \* history: the search each stored artwork was fetched with
    calls,         \* the fx_search_result calls of the last user action
    widgets        \* the widgets the last script run put on the page

nvars == <<n_pc, api_label, artwork, display>>
svars == <<s_pc, s_label, response, sampled, s_i, artworks, http_log, inflight,
           outcomes, s_raised>>
cvars == <<chat, twin>>
uvars == <<museum, session_state, fetched_with, calls, widgets>>
vars == <<nvars, svars, cvars, uvars>>

(***************************************************************************)
(* Bounds of the model.                                                    *)
(***************************************************************************)
MaxCreators == 1
MaxRecords == 6
MaxEvents == 2

(***************************************************************************)
(* utils.py: labels                                                        *)
(***************************************************************************)
CMA_LABEL == "Cleveland (CMA)"
MET_LABEL == "Metropolitan (MMA)"
UNKNOWN_LABEL == "unknown"
Labels == {CMA_LABEL, MET_LABEL, UNKNOWN_LABEL}

(***************************************************************************)
(* Python values, as far as fx_search_result looks at them.  A dict is the *)
(* set of its <<key, value>> pairs; PyInt stands for any truthy value that *)
(* is neither a string nor a container.                                    *)
(***************************************************************************)
PyNone == [t |-> "None"]
PyAbsent == [t |-> "absent"]
PyStr(s) == [t |-> "str", s |-> s]
PyInt == [t |-> "int", s |-> "7"]
PyList(items) == [t |-> "list", items |-> items]
PyDict(pairs) == [t |-> "dict", kv |-> {p \in pairs : p[2] # PyAbsent}]
EmptyDict == PyDict({})

\* bool(v)
Truthy(v) ==
    CASE v.t = "None" -> FALSE
      [] v.t = "absent" -> FALSE
      [] v.t = "str" -> v.s # ""
      [] v.t = "int" -> TRUE
      [] v.t = "list" -> v.items # <<>>
      [] v.t = "dict" -> v.kv # {}

\* a or b
PyOr(a, b) == IF Truthy(a) THEN a ELSE b

HasKey(d, key) == \E p \in d.kv : p[1] = key

\* d.get(key, default), for d a dict
DictGet(d, key, default) ==
    IF HasKey(d, key) THEN (CHOOSE p \in d.kv : p[1] = key)[2] ELSE default

\* Only a dict has .get: on any other value the attribute lookup raises
\* AttributeError.
HasGet(v) == v.t = "dict"

Raised(exc) == [ok |-> FALSE, exc |-> exc]
Returned(value) == [ok |-> TRUE, value |-> value]

EmptyDisplay ==
    [img_url |-> PyStr(""), title |-> PyStr(""), artist |-> PyStr(""),
     creation_date |-> PyStr("")]

\* The return statement of fx_search_result: each field `or ""`.
DisplayOf(img_url, title, artist, creation_date) ==
    [img_url |-> PyOr(img_url, PyStr("")),
     title |-> PyOr(title, PyStr("")),
     artist |-> PyOr(artist, PyStr("")),
     creation_date |-> PyOr(creation_date, PyStr(""))]

\* The CMA branch: images.web.url, title, creators[0], creation_date.
fx_search_result_cma(art) ==
    IF ~HasGet(art) THEN Raised("AttributeError")
    ELSE
    LET images == DictGet(art, "images", EmptyDict) IN
    IF ~HasGet(images) THEN Raised("AttributeError")
    ELSE
    LET web == DictGet(images, "web", EmptyDict) IN
    IF ~HasGet(web) THEN Raised("AttributeError")
    ELSE
    LET img_url == DictGet(web, "url", PyStr(""))
        title == DictGet(art, "title", PyStr(""))
        creators == PyOr(DictGet(art, "creators", PyNone), PyList(<<>>))
        creation_date == DictGet(art, "creation_date", PyStr(""))
    IN  IF Truthy(creators) /\ creators.t = "list"
        THEN LET first == creators.items[1] IN
             IF ~HasGet(first) THEN Raised("AttributeError")
             ELSE Returned(DisplayOf(img_url, title,
                     PyOr(PyOr(DictGet(first, "description", PyNone),
                               DictGet(first, "display", PyNone)),
                          PyStr("")),
                     creation_date))
        ELSE Returned(DisplayOf(img_url, title, PyStr(""), creation_date))

\* The MET branch: four flat fields.
fx_search_result_met(art) ==
    IF ~HasGet(art) THEN Raised("AttributeError")
    ELSE Returned(DisplayOf(DictGet(art, "primaryImageSmall", PyStr("")),
                            DictGet(art, "title", PyStr("")),
                            DictGet(art, "artist", PyStr("")),
                            DictGet(art, "objectDate", PyStr(""))))

\* fx_search_result without its first statement (`if not artwork`).
fx_search_result_unguarded(label, art) ==
    IF label = CMA_LABEL THEN fx_search_result_cma(art)
    ELSE IF label = MET_LABEL THEN fx_search_result_met(art)
    ELSE Returned(EmptyDisplay)

fx_search_result(label, art) ==
    IF ~Truthy(art) THEN Returned(EmptyDisplay)
    ELSE IF label = CMA_LABEL THEN fx_search_result_cma(art)
    ELSE IF label = MET_LABEL THEN fx_search_result_met(art)
    ELSE Returned(DisplayOf(PyStr(""), PyStr(""), PyStr(""), PyStr("")))

(***************************************************************************)
(* The raw artworks the normalizer is applied to: CMA-shaped and           *)
(* MET-shaped mappings with each field absent, null, empty, well-formed or *)
(* of another shape, the empty mapping, and None.                          *)
(***************************************************************************)
ScalarOpts == {PyAbsent, PyNone, PyStr(""), PyStr("x"), PyInt}

WebOpts ==
    {PyAbsent, PyNone, PyStr("w"), EmptyDict,
     PyDict({<<"url", PyNone>>}), PyDict({<<"url", PyStr("u")>>})}

ImagesOpts ==
    {PyNone, PyStr("i"), PyList(<<>>)} \cup {PyDict({<<"web", w>>}) : w \in WebOpts}
    \cup {PyAbsent}

CreatorOpts ==
    {PyNone, PyStr("c"), EmptyDict,
     PyDict({<<"description", PyStr("d")>>}),
     PyDict({<<"display", PyStr("p")>>}),
     PyDict({<<"description", PyNone>>, <<"display", PyStr("p")>>}),
     PyDict({<<"description", PyStr("d")>>, <<"display", PyStr("p")>>})}

SeqsUpTo(S, n) == UNION {[1..k -> S] : k \in 0..n}

CreatorsOpts ==
    {PyAbsent, PyNone, PyStr("c"), PyDict({<<"description", PyStr("d")>>})}
    \cup {PyList(l) : l \in SeqsUpTo(CreatorOpts, MaxCreators)}

DateOpts == {PyAbsent, PyNone, PyStr(""), PyStr("1889")}

CmaArtworks ==
    {PyDict({<<"images", i>>, <<"title", t>>, <<"creators", c>>,
             <<"creation_date", d>>}) :
        i \in ImagesOpts, t \in ScalarOpts, c \in CreatorsOpts, d \in DateOpts}

MetArtworks ==
    {PyDict({<<"primaryImageSmall", i>>, <<"title", t>>, <<"artist", a>>,
             <<"objectDate", d>>}) :
        i \in ScalarOpts, t \in ScalarOpts, a \in ScalarOpts, d \in DateOpts}

RawArtworks == CmaArtworks \cup MetArtworks \cup {EmptyDict, PyNone}

(***************************************************************************)
(* utils.py: sampling.  random.sample(population, k) draws k positions of  *)
(* the population without replacement, in a random order, and raises       *)
(* ValueError when k exceeds the population.  A population is given by its *)
(* length n; an outcome is the sequence of the positions drawn.            *)
(***************************************************************************)
SampleSize == 5

Min(a, b) == IF a < b THEN a ELSE b

IsInjective(f) == \A i, j \in DOMAIN f : i # j => f[i] # f[j]

\* A sampler that may draw the same position twice.
random_choices(n, k) == [1..k -> 1..n]

random_sample(n, k) == {p \in [1..k -> 1..n] : IsInjective(p)}

\* k = n: no cap on the sample.
sample_k_uncapped(n) == n

\* k = min(5, len(...))
sample_k(n) == Min(SampleSize, n)

\* fx_search_cma, lines 51-56: the positions of `data` returned.
cma_sampled(n) ==
    LET k == sample_k(n) IN
    IF k > n THEN {[i \in 1..k |-> i]} ELSE random_sample(n, k)

\* A search response body: the field (data / objectIDs) is missing or null,
\* or it is a list of n entries.
NoList == -1
Responses == {NoList} \cup (0..MaxRecords)
ListLen(r) == IF r = NoList THEN 0 ELSE r

\* The MET search response lists the identifiers of the matching objects,
\* each object once.
ObjectIdBase == 436000
object_ids(n) == [i \in 1..n |-> ObjectIdBase + i]

(***************************************************************************)
(* SpecSearch: one call of fx_search(api_label, q, highlight).             *)
(***************************************************************************)
CmaRequest == <<"GET", "cma/artworks", 0>>
MetSearchRequest == <<"GET", "met/search", 0>>
MetObjectRequest(obj_id) == <<"GET", "met/objects", obj_id>>

\* fx_search, lines 91-92, and fx_search_cma up to requests.get(url).
DispatchCma ==
    /\ s_pc = "called"
    /\ s_label = CMA_LABEL
    /\ http_log' = Append(http_log, CmaRequest)
    /\ inflight' = inflight + 1
    /\ s_pc' = "cma_wait"
    /\ UNCHANGED <<s_label, response, sampled, s_i, artworks, outcomes, s_raised>>
    /\ UNCHANGED <<nvars, cvars, uvars>>

\* fx_search, lines 93-94, and fx_search_met up to requests.get(url).
DispatchMet ==
    /\ s_pc = "called"
    /\ s_label = MET_LABEL
    /\ http_log' = Append(http_log, MetSearchRequest)
    /\ inflight' = inflight + 1
    /\ s_pc' = "met_wait"
    /\ UNCHANGED <<s_label, response, sampled, s_i, artworks, outcomes, s_raised>>
    /\ UNCHANGED <<nvars, cvars, uvars>>

\* fx_search, line 95.
DispatchUnknown ==
    /\ s_pc = "called"
    /\ s_label \notin {CMA_LABEL, MET_LABEL}
    /\ artworks' = <<>>
    /\ s_pc' = "returned"
    /\ UNCHANGED <<s_label, response, sampled, s_i, http_log, inflight, outcomes,
                   s_raised>>
    /\ UNCHANGED <<nvars, cvars, uvars>>

\* The primary request fails (requests.get, raise_for_status or json raises):
\* nothing catches it.
PrimaryFails ==
    /\ s_pc \in {"cma_wait", "met_wait"}
    /\ inflight' = inflight - 1
    /\ s_raised' = TRUE
    /\ s_pc' = "raised"
    /\ UNCHANGED <<s_label, response, sampled, s_i, artworks, http_log, outcomes>>
    /\ UNCHANGED <<nvars, cvars, uvars>>

\* fx_search_cma, lines 45-56.
CmaResponse ==
    /\ s_pc = "cma_wait"
    /\ inflight' = inflight - 1
    /\ \E r \in Responses :
        /\ response' = r
        /\ IF ListLen(r) = 0
           THEN /\ sampled' = <<>>
                /\ artworks' = <<>>
           ELSE \E p \in cma_sampled(ListLen(r)) :
                /\ sampled' = p
                /\ artworks' = p
    /\ s_pc' = "returned"
    /\ UNCHANGED <<s_label, s_i, http_log, outcomes, s_raised>>
    /\ UNCHANGED <<nvars, cvars, uvars>>

\* fx_search_met, lines 68-75.
MetResponse ==
    /\ s_pc = "met_wait"
    /\ inflight' = inflight - 1
    /\ \E r \in Responses :
        /\ response' = r
        /\ IF ListLen(r) = 0
           THEN /\ sampled' = <<>>
                /\ s_pc' = "returned"
           ELSE /\ \E p \in random_sample(ListLen(r), sample_k(ListLen(r))) :
                      sampled' = [i \in DOMAIN p |-> object_ids(ListLen(r))[p[i]]]
                /\ s_pc' = "met_loop"
    /\ artworks' = <<>>
    /\ s_i' = 1
    /\ UNCHANGED <<s_label, http_log, outcomes, s_raised>>
    /\ UNCHANGED <<nvars, cvars, uvars>>

\* fx_search_met, lines 76-79: the next detail request is sent.
MetSendDetail ==
    /\ s_pc = "met_loop"
    /\ s_i <= Len(sampled)
    /\ http_log' = Append(http_log, MetObjectRequest(sampled[s_i]))
    /\ inflight' = inflight + 1
    /\ s_pc' = "met_detail_wait"
    /\ UNCHANGED <<s_label, response, sampled, s_i, artworks, outcomes, s_raised>>
    /\ UNCHANGED <<nvars, cvars, uvars>>

\* fx_search_met, lines 80-82: the record of sampled_ids[s_i] is appended.
MetDetailOk ==
    /\ s_pc = "met_detail_wait"
    /\ inflight' = inflight - 1
    /\ artworks' = Append(artworks, sampled[s_i])
    /\ outcomes' = Append(outcomes, TRUE)
    /\ s_i' = s_i + 1
    /\ s_pc' = "met_loop"
    /\ UNCHANGED <<s_label, response, sampled, http_log, s_raised>>
    /\ UNCHANGED <<nvars, cvars, uvars>>

DetailFailures == {"network error", "non-success status", "malformed body"}

\* A detail failure that is not caught.
MetDetailFailsUncaught(failure) ==
    /\ s_pc = "met_detail_wait"
    /\ inflight' = inflight - 1
    /\ outcomes' = Append(outcomes, FALSE)
    /\ s_raised' = TRUE
    /\ s_pc' = "raised"
    /\ UNCHANGED <<s_label, response, sampled, s_i, artworks, http_log>>
    /\ UNCHANGED <<nvars, cvars, uvars>>

\* fx_search_met, lines 83-85: requests.get, raise_for_status or json raised;
\* `except Exception: continue`.
MetDetailFails(failure) ==
    /\ s_pc = "met_detail_wait"
    /\ inflight' = inflight - 1
    /\ outcomes' = Append(outcomes, FALSE)
    /\ s_i' = s_i + 1
    /\ s_pc' = "met_loop"
    /\ UNCHANGED <<s_label, response, sampled, artworks, http_log, s_raised>>
    /\ UNCHANGED <<nvars, cvars, uvars>>

\* fx_search_met, line 86.
MetReturn ==
    /\ s_pc = "met_loop"
    /\ s_i > Len(sampled)
    /\ s_pc' = "returned"
    /\ UNCHANGED <<s_label, response, sampled, s_i, artworks, http_log, inflight,
                   outcomes, s_raised>>
    /\ UNCHANGED <<nvars, cvars, uvars>>

(***************************************************************************)
(* chat.py.  Text is a string; None, a missing key or attribute and the    *)
(* empty string are all the empty string here (each is falsy, and the code *)
(* only tests truthiness).  An unset environment variable is Unset.        *)
(***************************************************************************)
Unset == "(unset)"

\* `not v`, for v the value of os.environ.get(...)
Falsy(v) == v \in {Unset, ""}

\* a or b, on values of os.environ.get(...)
EnvOr(a, b) == IF Falsy(a) THEN b ELSE a

\* a or b, on text
StrOr(a, b) == IF a # "" THEN a ELSE b

\* os.environ[name] = value
EnvAssign(env, name, value) == [env EXCEPT ![name] = value]

\* os.environ.setdefault(name, value)
EnvSetdefault(env, name, value) ==
    IF env[name] = Unset THEN [env EXCEPT ![name] = value] ELSE env

get_system_prompt == "You are ArtRogue, an art museum chatbot ..."

Message(role, content) == [role |-> role, content |-> content]

(***************************************************************************)
(* A provider event.  Its first choice may carry a delta, a message, and   *)
(* content / text fields of its own.  `other` says that the delta or       *)
(* message is truthy whatever its text: a dict with another key (a role,   *)
(* say), or an object, which is always truthy.                             *)
(***************************************************************************)
NoSource == [present |-> FALSE, content |-> "", text |-> "", other |-> FALSE]

Source(content, text, other) ==
    [present |-> TRUE, content |-> content, text |-> text, other |-> other]

Sources(c, t) ==
    {NoSource, Source("", "", FALSE), Source("", "", TRUE), Source(c, "", FALSE),
     Source("", t, FALSE), Source(c, t, FALSE)}

Events ==
    [choices : {TRUE}, delta : Sources("dc", "dt"),
     message : Sources("mc", "mt"), content : {"", "fc"}, text : {"", "ft"}]
    \cup [choices : {FALSE}, delta : {NoSource}, message : {NoSource},
          content : {""}, text : {""}]

\* bool(x) of a delta or message: a missing one is None, an empty dict is
\* falsy.
SourceTruthy(src) ==
    /\ src.present
    /\ src.content # "" \/ src.text # "" \/ src.other

\* The first choice itself, read as a source of content / text.
ChoiceItself(e) == Source(e.content, e.text, TRUE)

(***************************************************************************)
(* stream_completion(prompt), piece by piece.                              *)
(***************************************************************************)
\* line 46
sc_api_key(env) == EnvOr(env.OPENAI_API_KEY, env.OPENAI_KEY)

\* line 47
sc_no_credential(api_key) == Falsy(api_key)

\* line 48
sc_no_key == "(No OpenAI API key set in OPENAI_API_KEY environment variable)"

\* line 54
sc_setdefault(env, api_key) == EnvSetdefault(env, "OPENAI_API_KEY", api_key)

\* A request that carries the user message alone.
sc_messages_user_only(prompt) == <<Message("user", prompt)>>

\* lines 59-60 and 103-104
sc_messages(prompt) ==
    <<Message("system", get_system_prompt), Message("user", prompt)>>

\* lines 64-91: the text one event of the new client contributes
sc_extract_new(e) ==
    IF ~e.choices THEN ""
    ELSE LET delta == IF SourceTruthy(e.delta) THEN e.delta
                      ELSE IF SourceTruthy(e.message) THEN e.message
                      ELSE ChoiceItself(e)
         IN  StrOr(delta.content, delta.text)

\* lines 108-115: the text one chunk of the legacy SDK contributes
sc_extract_legacy(e) ==
    IF ~e.choices THEN ""
    ELSE LET delta == IF SourceTruthy(e.delta) THEN e.delta ELSE NoSource
         IN  StrOr(delta.content, e.text)

\* lines 94, 117, 121
sc_error_new == "(Error streaming from OpenAI (new client): {e})"
sc_error_legacy == "(Error streaming from OpenAI (legacy): {e})"
sc_not_installed == "(OpenAI SDK not installed)"

(***************************************************************************)
(* stream_messages(messages), piece by piece.                              *)
(***************************************************************************)
\* line 126
sm_api_key(env) == EnvOr(env.OPENAI_API_KEY, env.OPENAI_KEY)

\* A guard that takes only None for a missing credential.
sm_no_credential_is_none(api_key) == api_key = Unset

\* line 127
sm_no_credential(api_key) == Falsy(api_key)

\* line 128
sm_no_key == "(No OpenAI API key set in OPENAI_API_KEY environment variable)"

\* An unconditional os.environ["OPENAI_API_KEY"] = api_key.
sm_assign(env, api_key) == EnvAssign(env, "OPENAI_API_KEY", api_key)

\* line 133
sm_setdefault(env, api_key) == EnvSetdefault(env, "OPENAI_API_KEY", api_key)

\* lines 138 and 174
sm_messages(messages) == messages

\* An extraction that falls back to the first choice whenever the delta has
\* no text.
sm_extract_new_fallback(e) ==
    IF ~e.choices THEN ""
    ELSE StrOr(StrOr(e.delta.content, e.delta.text), StrOr(e.content, e.text))

\* lines 141-163
sm_extract_new(e) ==
    IF ~e.choices THEN ""
    ELSE LET delta == IF SourceTruthy(e.delta) THEN e.delta
                      ELSE IF SourceTruthy(e.message) THEN e.message
                      ELSE ChoiceItself(e)
         IN  StrOr(delta.content, delta.text)

\* lines 177-184
sm_extract_legacy(e) ==
    IF ~e.choices THEN ""
    ELSE LET delta == IF SourceTruthy(e.delta) THEN e.delta ELSE NoSource
         IN  StrOr(delta.content, e.text)

\* lines 165, 186, 189
sm_error_new == "(Error streaming from OpenAI (new client): {e})"
sm_error_legacy == "(Error streaming from OpenAI (legacy): {e})"
sm_not_installed == "(OpenAI SDK not installed)"

(***************************************************************************)
(* A process and the generator it consumes.  environ, OpenAIClient,        *)
(* openai_legacy and legacy_api_key (openai_legacy.api_key) are            *)
(* process-wide; the other fields are the generator's locals, what it has  *)
(* done (requests, clients, out) and what was seen of it (before, emitted, *)
(* event, n, failed, exhausted, raised, environ0, legacy0).                *)
(***************************************************************************)
Environs == [OPENAI_API_KEY : {Unset, "", "sk-A"}, OPENAI_KEY : {Unset, "", "sk-B"}]

Prompts == {"van gogh", "monet"}

CallerMessages ==
    {<<>>}
    \cup {<<Message("system", get_system_prompt), Message("user", p)>> : p \in Prompts}
    \cup {<<Message("user", "van gogh"), Message("assistant", "bold"),
            Message("user", "monet")>>}

Process(env, new_sdk, legacy_sdk) ==
    [environ |-> env, OpenAIClient |-> new_sdk, openai_legacy |-> legacy_sdk,
     legacy_api_key |-> Unset,
     pc |-> "idle", entry |-> "none", prompt |-> "", messages |-> <<>>,
     api_key |-> Unset, path |-> "none",
     requests |-> <<>>, clients |-> 0, out |-> <<>>,
     before |-> <<>>, emitted |-> <<>>, event |-> <<>>, n |-> 0,
     failed |-> FALSE, exhausted |-> FALSE, raised |-> FALSE,
     environ0 |-> env, legacy0 |-> Unset]

\* The SDKs a process can have imported: openai >= 1.0 (both imports succeed),
\* an older openai (only the module import succeeds), or none.
Processes ==
    {Process(env, sdk[1], sdk[2]) :
        env \in Environs, sdk \in {<<TRUE, TRUE>>, <<FALSE, TRUE>>, <<FALSE, FALSE>>}}

\* Calling a generator function runs none of its body.
GenCall(r, entry, prompt, messages) ==
    [Process(r.environ, r.OpenAIClient, r.openai_legacy) EXCEPT
        !.legacy_api_key = r.legacy_api_key, !.legacy0 = r.legacy_api_key,
        !.pc = "start", !.entry = entry, !.prompt = prompt, !.messages = messages]

\* The generator is finished and dropped; the process lives on.
GenReturn(r) ==
    [Process(r.environ, r.OpenAIClient, r.openai_legacy) EXCEPT
        !.legacy_api_key = r.legacy_api_key, !.legacy0 = r.legacy_api_key]

Yield(r, text) == [r EXCEPT !.out = Append(@, text)]

\* stream_completion, lines 46-55 and 97-100, 121: up to the streaming call.
sc_start(r) ==
    LET api_key == sc_api_key(r.environ) IN
    IF sc_no_credential(api_key)
    THEN [Yield(r, sc_no_key) EXCEPT !.api_key = api_key, !.pc = "done"]
    ELSE IF r.OpenAIClient
    THEN [r EXCEPT !.api_key = api_key, !.environ = sc_setdefault(@, api_key),
                   !.path = "new", !.pc = "create"]
    ELSE IF r.openai_legacy
    THEN [r EXCEPT !.api_key = api_key, !.legacy_api_key = api_key,
                   !.path = "legacy", !.pc = "create"]
    ELSE [Yield(r, sc_not_installed) EXCEPT !.api_key = api_key, !.pc = "done"]

\* stream_completion, lines 93-94 and 116-117: the except clauses.
sc_on_error(r) ==
    [Yield(r, IF r.path = "new" THEN sc_error_new ELSE sc_error_legacy) EXCEPT
        !.failed = TRUE, !.pc = "done"]

\* stream_completion, lines 56-62 and 101-106: the client is built (new
\* client only) and the streaming request issued.
sc_create(r, outcome) ==
    IF outcome = "client raises" THEN sc_on_error(r)
    ELSE LET sent == [r EXCEPT !.clients = IF r.path = "new" THEN @ + 1 ELSE @,
                               !.requests = Append(@, sc_messages(r.prompt))]
         IN  IF outcome = "create raises" THEN sc_on_error(sent)
             ELSE [sent EXCEPT !.pc = "streaming"]

\* stream_completion, lines 64-91 and 108-115: one turn of the for loop.
sc_event(r, e) ==
    LET text == IF r.path = "new" THEN sc_extract_new(e) ELSE sc_extract_legacy(e)
        seen == [r EXCEPT !.before = r.out, !.event = <<e>>, !.n = @ + 1,
                          !.emitted = IF text # "" THEN <<text>> ELSE <<>>,
                          !.pc = "looped"]
    IN  IF text # "" THEN Yield(seen, text) ELSE seen

\* stream_completion, lines 95 and 118: the stream is exhausted.
sc_end(r) == [r EXCEPT !.exhausted = TRUE, !.pc = "done"]

\* stream_messages, lines 126-134 and 168-171, 189.
sm_start(r) ==
    LET api_key == sm_api_key(r.environ) IN
    IF sm_no_credential(api_key)
    THEN [Yield(r, sm_no_key) EXCEPT !.api_key = api_key, !.pc = "done"]
    ELSE IF r.OpenAIClient
    THEN [r EXCEPT !.api_key = api_key, !.environ = sm_setdefault(@, api_key),
                   !.path = "new", !.pc = "create"]
    ELSE IF r.openai_legacy
    THEN [r EXCEPT !.api_key = api_key, !.legacy_api_key = api_key,
                   !.path = "legacy", !.pc = "create"]
    ELSE [Yield(r, sm_not_installed) EXCEPT !.api_key = api_key, !.pc = "done"]

\* An except clause that lets the exception out of the generator.
sm_on_error_reraise(r) == [r EXCEPT !.failed = TRUE, !.raised = TRUE, !.pc = "done"]

\* stream_messages, lines 164-165 and 185-186.
sm_on_error(r) ==
    [Yield(r, IF r.path = "new" THEN sm_error_new ELSE sm_error_legacy) EXCEPT
        !.failed = TRUE, !.pc = "done"]

\* stream_messages, lines 135-140 and 172-176.
sm_create(r, outcome) ==
    IF outcome = "client raises" THEN sm_on_error(r)
    ELSE LET sent == [r EXCEPT !.clients = IF r.path = "new" THEN @ + 1 ELSE @,
                               !.requests = Append(@, sm_messages(r.messages))]
         IN  IF outcome = "create raises" THEN sm_on_error(sent)
             ELSE [sent EXCEPT !.pc = "streaming"]

\* stream_messages, lines 141-163 and 177-184.
sm_event(r, e) ==
    LET text == IF r.path = "new" THEN sm_extract_new(e) ELSE sm_extract_legacy(e)
        seen == [r EXCEPT !.before = r.out, !.event = <<e>>, !.n = @ + 1,
                          !.emitted = IF text # "" THEN <<text>> ELSE <<>>,
                          !.pc = "looped"]
    IN  IF text # "" THEN Yield(seen, text) ELSE seen

\* stream_messages, lines 166 and 187.
sm_end(r) == [r EXCEPT !.exhausted = TRUE, !.pc = "done"]

\* The step of whichever generator r is.
GenStart(r) == IF r.entry = "stream_completion" THEN sc_start(r) ELSE sm_start(r)
GenCreate(r, outcome) ==
    IF r.entry = "stream_completion" THEN sc_create(r, outcome) ELSE sm_create(r, outcome)
GenEvent(r, e) == IF r.entry = "stream_completion" THEN sc_event(r, e) ELSE sm_event(r, e)
GenError(r) == IF r.entry = "stream_completion" THEN sc_on_error(r) ELSE sm_on_error(r)
GenEnd(r) == IF r.entry = "stream_completion" THEN sc_end(r) ELSE sm_end(r)

\* What the streaming call can do: the constructor OpenAIClient() raises
\* (new client only), the create call raises, or a stream comes back.
CreateOutcomes(r) ==
    {"create raises", "stream"}
    \cup (IF r.path = "new" THEN {"client raises"} ELSE {})

\* `for event in stream`: control is back at the loop header, the loop
\* variables of the last turn are dead.
GenLoop(r) == [r EXCEPT !.before = <<>>, !.emitted = <<>>, !.event = <<>>,
                        !.pc = "streaming"]

(***************************************************************************)
(* SpecChat: a process consuming one generator after another.              *)
(***************************************************************************)
CallCompletion ==
    /\ chat.pc = "idle"
    /\ \E p \in Prompts : chat' = GenCall(chat, "stream_completion", p, <<>>)
    /\ UNCHANGED <<twin, nvars, svars, uvars>>

CallMessages ==
    /\ chat.pc = "idle"
    /\ \E m \in CallerMessages : chat' = GenCall(chat, "stream_messages", "", m)
    /\ UNCHANGED <<twin, nvars, svars, uvars>>

Start ==
    /\ chat.pc = "start"
    /\ chat' = GenStart(chat)
    /\ UNCHANGED <<twin, nvars, svars, uvars>>

Create ==
    /\ chat.pc = "create"
    /\ \E outcome \in CreateOutcomes(chat) : chat' = GenCreate(chat, outcome)
    /\ UNCHANGED <<twin, nvars, svars, uvars>>

NextEvent ==
    /\ chat.pc = "streaming"
    /\ chat.n < MaxEvents
    /\ \E e \in Events : chat' = GenEvent(chat, e)
    /\ UNCHANGED <<twin, nvars, svars, uvars>>

NextIteration ==
    /\ chat.pc = "looped"
    /\ chat' = GenLoop(chat)
    /\ UNCHANGED <<twin, nvars, svars, uvars>>

StreamFails ==
    /\ chat.pc = "streaming"
    /\ chat' = GenError(chat)
    /\ UNCHANGED <<twin, nvars, svars, uvars>>

StreamEnds ==
    /\ chat.pc = "streaming"
    /\ chat' = GenEnd(chat)
    /\ UNCHANGED <<twin, nvars, svars, uvars>>

Return ==
    /\ chat.pc = "done"
    /\ chat' = GenReturn(chat)
    /\ UNCHANGED <<twin, nvars, svars, uvars>>

(***************************************************************************)
(* SpecEquiv: stream_completion(prompt) in one process and                 *)
(* stream_messages(messages) in a second process that starts in the same   *)
(* state, both given the same outcome of the streaming call and the same   *)
(* events.                                                                 *)
(***************************************************************************)
At(r, pc, next) == IF r.pc = pc THEN next ELSE r

EqCall ==
    /\ chat.pc = "idle" /\ twin.pc = "idle"
    /\ \E p \in Prompts, m \in CallerMessages :
        /\ chat' = GenCall(chat, "stream_completion", p, <<>>)
        /\ twin' = GenCall(twin, "stream_messages", "", m)
    /\ UNCHANGED <<nvars, svars, uvars>>

EqStart ==
    /\ "start" \in {chat.pc, twin.pc}
    /\ chat' = At(chat, "start", GenStart(chat))
    /\ twin' = At(twin, "start", GenStart(twin))
    /\ UNCHANGED <<nvars, svars, uvars>>

EqCreate ==
    /\ "create" \in {chat.pc, twin.pc}
    /\ \E outcome \in CreateOutcomes(chat) \cup CreateOutcomes(twin) :
        /\ chat' = At(chat, "create", GenCreate(chat, outcome))
        /\ twin' = At(twin, "create", GenCreate(twin, outcome))
    /\ UNCHANGED <<nvars, svars, uvars>>

EqNextEvent ==
    /\ "streaming" \in {chat.pc, twin.pc}
    /\ chat.n < MaxEvents /\ twin.n < MaxEvents
    /\ \E e \in Events :
        /\ chat' = At(chat, "streaming", GenEvent(chat, e))
        /\ twin' = At(twin, "streaming", GenEvent(twin, e))
    /\ UNCHANGED <<nvars, svars, uvars>>

EqNextIteration ==
    /\ "looped" \in {chat.pc, twin.pc}
    /\ chat' = At(chat, "looped", GenLoop(chat))
    /\ twin' = At(twin, "looped", GenLoop(twin))
    /\ UNCHANGED <<nvars, svars, uvars>>

EqStreamFails ==
    /\ "streaming" \in {chat.pc, twin.pc}
    /\ chat' = At(chat, "streaming", GenError(chat))
    /\ twin' = At(twin, "streaming", GenError(twin))
    /\ UNCHANGED <<nvars, svars, uvars>>

EqStreamEnds ==
    /\ "streaming" \in {chat.pc, twin.pc}
    /\ chat' = At(chat, "streaming", GenEnd(chat))
    /\ twin' = At(twin, "streaming", GenEnd(twin))
    /\ UNCHANGED <<nvars, svars, uvars>>

(***************************************************************************)
(* Idle values of each component.                                          *)
(***************************************************************************)
NormIdle ==
    /\ n_pc = "idle"
    /\ api_label = UNKNOWN_LABEL
    /\ artwork = PyNone
    /\ display = Returned(EmptyDisplay)

(***************************************************************************)
(* SpecNormalize: fx_search_result applied to one (api_label, artwork).    *)
(***************************************************************************)
Normalize ==
    /\ n_pc = "called"
    /\ display' = fx_search_result(api_label, artwork)
    /\ n_pc' = "returned"
    /\ UNCHANGED <<api_label, artwork, svars, cvars, uvars>>

SearchIdle ==
    /\ s_pc = "idle"
    /\ s_label = UNKNOWN_LABEL
    /\ response = NoList
    /\ sampled = <<>>
    /\ s_i = 1
    /\ artworks = <<>>
    /\ http_log = <<>>
    /\ inflight = 0
    /\ outcomes = <<>>
    /\ s_raised = FALSE

IdleProcess == Process([OPENAI_API_KEY |-> Unset, OPENAI_KEY |-> Unset], FALSE, FALSE)

ChatIdle ==
    /\ chat = IdleProcess
    /\ twin = IdleProcess

\* The label a stored artwork was fetched with, when there is none.
NoLabel == "(none)"

\* The query and highlight arguments of the search that fetched the stored
\* results, when there is none.
NoRequest == [q |-> "", highlight |-> FALSE]

\* The content of a chat message: a text, and the artwork put into it.
Content(text, art) == [text |-> text, art |-> art]
Greeting == Message("assistant", Content("How can I help you?", PyNone))

\* The page after the first run of the script.
UiIdle ==
    /\ museum = CMA_LABEL
    /\ session_state = [results |-> <<>>, selected |-> PyNone,
                        messages |-> <<Greeting>>]
    /\ fetched_with = [results |-> NoLabel, request |-> NoRequest,
                       selected |-> NoLabel]
    /\ calls = <<>>
    /\ widgets = [sidebar |-> {"Museum", "Search", "Surprise Me", "What's New?"},
                  back |-> FALSE, view |-> {}, chat_input |-> TRUE]

InitNormalize ==
    /\ n_pc = "called"
    /\ api_label \in Labels
    /\ artwork \in RawArtworks
    /\ display = Returned(EmptyDisplay)
    /\ SearchIdle
    /\ ChatIdle
    /\ UiIdle

NextNormalize == Normalize

SpecNormalize == InitNormalize /\ [][NextNormalize]_vars

InitSearch ==
    /\ s_pc = "called"
    /\ s_label \in Labels
    /\ response = NoList
    /\ sampled = <<>>
    /\ s_i = 1
    /\ artworks = <<>>
    /\ http_log = <<>>
    /\ inflight = 0
    /\ outcomes = <<>>
    /\ s_raised = FALSE
    /\ NormIdle
    /\ ChatIdle
    /\ UiIdle

NextSearch ==
    \/ DispatchCma
    \/ DispatchMet
    \/ DispatchUnknown
    \/ PrimaryFails
    \/ CmaResponse
    \/ MetResponse
    \/ MetSendDetail
    \/ MetDetailOk
    \/ \E failure \in DetailFailures : MetDetailFails(failure)
    \/ MetReturn

SpecSearch == InitSearch /\ [][NextSearch]_vars

InitChat ==
    /\ chat \in Processes
    /\ twin = IdleProcess
    /\ NormIdle
    /\ SearchIdle
    /\ UiIdle

NextChat ==
    \/ CallCompletion
    \/ CallMessages
    \/ Start
    \/ Create
    \/ NextEvent
    \/ NextIteration
    \/ StreamFails
    \/ StreamEnds
    \/ Return

SpecChat == InitChat /\ [][NextChat]_vars

InitEquiv ==
    /\ chat \in Processes
    /\ twin = chat
    /\ NormIdle
    /\ SearchIdle
    /\ UiIdle

NextEquiv ==
    \/ EqCall
    \/ EqStart
    \/ EqCreate
    \/ EqNextEvent
    \/ EqNextIteration
    \/ EqStreamFails
    \/ EqStreamEnds

SpecEquiv == InitEquiv /\ [][NextEquiv]_vars

(***************************************************************************)
(* Claims about the result normalizer (SpecNormalize).                     *)
(***************************************************************************)
DisplayKeys == {"img_url", "title", "artist", "creation_date"}

\* The top-level source field each display field is read from.
SourceKey(label, field) ==
    IF label = CMA_LABEL
    THEN CASE field = "img_url" -> "images"
           [] field = "title" -> "title"
           [] field = "artist" -> "creators"
           [] field = "creation_date" -> "creation_date"
    ELSE CASE field = "img_url" -> "primaryImageSmall"
           [] field = "title" -> "title"
           [] field = "artist" -> "artist"
           [] field = "creation_date" -> "objectDate"

\* C1: for every label and every raw artwork mapping, fx_search_result
\* returns without raising a mapping with exactly the four keys img_url,
\* title, artist, creation_date, each value a string, and each absent or
\* null source field normalized to the empty string.
C1_NormalizeIsTotal ==
    n_pc = "returned" =>
        /\ display.ok
        /\ DOMAIN display.value = DisplayKeys
        /\ \A k \in DisplayKeys : display.value[k].t = "str"
        /\ \A k \in DisplayKeys :
              (artwork.t = "dict" /\ api_label \in {CMA_LABEL, MET_LABEL}
               /\ DictGet(artwork, SourceKey(api_label, k), PyNone) = PyNone)
              => display.value[k] = PyStr("")

\* C2: for every label, known or unknown, fx_search_result applied to an
\* empty or absent raw artwork returns exactly the four empty strings.
C2_EmptyArtwork ==
    (n_pc = "returned" /\ artwork \in {EmptyDict, PyNone})
        => display = Returned(EmptyDisplay)

C2_Witness ==
    /\ n_pc = "returned"
    /\ api_label = CMA_LABEL
    /\ artwork = PyNone
    /\ display = Returned(EmptyDisplay)

(***************************************************************************)
(* Claims about the museum gateway (SpecSearch).                           *)
(***************************************************************************)
Range(f) == {f[i] : i \in DOMAIN f}

Identity(n) == [i \in 1..n |-> i]

CmaReturnedList == s_label = CMA_LABEL /\ s_pc = "returned" /\ response # NoList

\* C3 as stated: with N <= 5 records fx_search_cma returns all N records in
\* their original response order; with N > 5 it returns exactly 5 records at
\* pairwise distinct positions of the response; the sampling never raises.
C3_OriginalOrder ==
    CmaReturnedList =>
        /\ ~s_raised
        /\ IF response <= SampleSize
           THEN artworks = Identity(response)
           ELSE /\ Len(artworks) = SampleSize
                /\ IsInjective(artworks)
                /\ Range(artworks) \subseteq 1..response

\* C3 amended: with N <= 5 records fx_search_cma returns all N records, each
\* exactly once, in the order random.sample drew them; with N > 5 it returns
\* exactly 5 records at pairwise distinct positions of the response; the
\* sampling never raises.
C3_SampledOrder ==
    CmaReturnedList =>
        /\ ~s_raised
        /\ IsInjective(artworks)
        /\ Range(artworks) \subseteq 1..response
        /\ IF response <= SampleSize
           THEN Len(artworks) = response /\ Range(artworks) = 1..response
           ELSE Len(artworks) = SampleSize

C3_Witness ==
    /\ CmaReturnedList
    /\ response = 3
    /\ artworks = <<3, 1, 2>>

\* The primary search request of fx_search_met has succeeded.
MetPrimarySucceeded ==
    /\ s_label = MET_LABEL
    /\ \/ s_pc \in {"met_loop", "met_detail_wait", "returned"}
       \/ s_pc = "raised" /\ Len(http_log) > 1

RECURSIVE Kept(_, _)
\* The identifiers of `ids` whose detail request, by `oks`, succeeded.
Kept(ids, oks) ==
    IF oks = <<>> \/ ids = <<>> THEN <<>>
    ELSE IF Head(oks) THEN <<Head(ids)>> \o Kept(Tail(ids), Tail(oks))
         ELSE Kept(Tail(ids), Tail(oks))

\* C4: once the primary search request has succeeded, a failing detail
\* request is swallowed: the identifier is skipped, the remaining sampled
\* identifiers are still fetched, the returned list holds exactly the
\* records of the sampled identifiers whose request succeeded, in sampled
\* order, and no exception escapes fx_search.
C4_DetailFailureSkipped ==
    MetPrimarySucceeded =>
        /\ ~s_raised
        /\ s_pc # "raised"
        /\ artworks = Kept(sampled, outcomes)
        /\ Len(outcomes) <= Len(sampled)
        /\ s_pc = "returned" => Len(outcomes) = Len(sampled)

C4_Witness ==
    /\ MetPrimarySucceeded
    /\ s_pc = "returned"
    /\ Len(sampled) = 5
    /\ outcomes = <<TRUE, FALSE, TRUE, TRUE, TRUE>>
    /\ Len(artworks) = 4

\* C8: one call of fx_search for MET issues one primary search request and
\* then at most 5 detail requests, one at a time, exactly one per sampled
\* identifier and none twice (all identifiers when fewer than 5 match, none
\* when the list is empty or missing); the returned list has at most 5
\* records.
C8_MetRequests ==
    s_label = MET_LABEL =>
        /\ inflight <= 1
        /\ Len(http_log) <= 1 + SampleSize
        /\ IsInjective(http_log)
        /\ \A i \in DOMAIN http_log :
              http_log[i] = IF i = 1 THEN MetSearchRequest
                            ELSE MetObjectRequest(sampled[i - 1])
        /\ MetPrimarySucceeded =>
              /\ Len(sampled) = Min(5, ListLen(response))
              /\ Range(sampled) \subseteq Range(object_ids(ListLen(response)))
        /\ s_pc = "returned" =>
              /\ Len(http_log) = 1 + Len(sampled)
              /\ ListLen(response) = 0 => Len(http_log) = 1
              /\ Len(artworks) <= 5

C8_Witness ==
    /\ s_label = MET_LABEL
    /\ s_pc = "returned"
    /\ response = 6
    /\ Len(http_log) = 6
    /\ Len(artworks) = 5

(***************************************************************************)
(* Claims about the chat adapter (SpecChat, SpecEquiv).                    *)
(***************************************************************************)
Last(q) == q[Len(q)]

IsStreamingError(fragment) ==
    fragment \in {"(Error streaming from OpenAI (new client): {e})",
                  "(Error streaming from OpenAI (legacy): {e})"}

NoKeyMessage == "(No OpenAI API key set in OPENAI_API_KEY environment variable)"

HoldsCredential(v) == v \notin {Unset, ""}

NoCredential(env) ==
    ~HoldsCredential(env.OPENAI_API_KEY) /\ ~HoldsCredential(env.OPENAI_KEY)

Credential(env) ==
    IF HoldsCredential(env.OPENAI_API_KEY) THEN env.OPENAI_API_KEY ELSE env.OPENAI_KEY

\* C5 as stated: if the streaming call fails at any point of an invocation,
\* the sequence is exactly one fragment, the streaming error, and ends; no
\* exception reaches the consumer.
C5_OnlyTheErrorFragment ==
    chat.failed =>
        /\ chat.pc = "done"
        /\ ~chat.raised
        /\ Len(chat.out) = 1
        /\ IsStreamingError(chat.out[1])

\* C5 amended: if the streaming call fails at any point of an invocation,
\* the sequence is the fragments yielded for the events received before the
\* failure (none when the client or the create call fails) followed by
\* exactly one streaming error fragment, and ends there: no retry, no second
\* request, no exception to the consumer.
C5_ErrorFragmentLast ==
    chat.failed =>
        /\ chat.pc = "done"
        /\ ~chat.raised
        /\ ~chat.exhausted
        /\ chat.out # <<>>
        /\ IsStreamingError(Last(chat.out))
        /\ \A i \in 1..(Len(chat.out) - 1) : ~IsStreamingError(chat.out[i])
        /\ Len(chat.out) <= chat.n + 1
        /\ chat.n = 0 => Len(chat.out) = 1
        /\ Len(chat.requests) <= 1
        /\ chat.clients <= 1

C5_Witness ==
    /\ chat.failed
    /\ chat.entry = "stream_messages"
    /\ chat.n = 1
    /\ chat.out = <<"dc", "(Error streaming from OpenAI (new client): {e})">>

\* C6: with no credential in OPENAI_API_KEY or OPENAI_KEY, both entry points
\* yield exactly the fixed no-credential message and terminate; no client is
\* constructed, no request issued, no exception raised, whatever the input
\* and whichever SDK is installed.
C6_NoCredential ==
    (chat.entry # "none" /\ NoCredential(chat.environ0)) =>
        /\ chat.pc \in {"start", "done"}
        /\ chat.out = IF chat.pc = "done" THEN <<NoKeyMessage>> ELSE <<>>
        /\ chat.clients = 0
        /\ chat.requests = <<>>
        /\ ~chat.raised
        /\ ~chat.failed

C6_Witness ==
    /\ chat.entry = "stream_completion"
    /\ chat.environ0 = [OPENAI_API_KEY |-> "", OPENAI_KEY |-> Unset]
    /\ chat.OpenAIClient
    /\ chat.pc = "done"
    /\ chat.out = <<NoKeyMessage>>

\* C7: stream_completion(p) yields the same fragments as
\* stream_messages([system prompt, user p]) in every environment and for
\* every event stream, and sends the same request; stream_messages sends the
\* caller's message list verbatim.
C7_EntryPointsEquivalent ==
    /\ twin.requests \in {<<>>, <<twin.messages>>}
    /\ (/\ chat.entry = "stream_completion"
        /\ twin.entry = "stream_messages"
        /\ twin.messages = <<Message("system", get_system_prompt),
                             Message("user", chat.prompt)>>)
       => /\ chat.out = twin.out
          /\ chat.pc = twin.pc
          /\ chat.requests = twin.requests
          /\ chat.clients = twin.clients
          /\ chat.raised = twin.raised
          /\ chat.failed = twin.failed

C7_Witness ==
    /\ chat.entry = "stream_completion"
    /\ twin.entry = "stream_messages"
    /\ twin.messages = <<Message("system", get_system_prompt),
                         Message("user", chat.prompt)>>
    /\ twin.requests = <<twin.messages>>
    /\ chat.pc = "done" /\ twin.pc = "done"
    /\ chat.exhausted
    /\ chat.out = <<"dc", "ft">>
    /\ twin.out = <<"dc", "ft">>

\* The event the loop body has just run on.
LoopedOn(e) == chat.pc = "looped" /\ chat.event = <<e>>

AllTexts(e) ==
    {e.delta.content, e.delta.text, e.message.content, e.message.text,
     e.content, e.text}

\* C9 as stated: each event contributes at most one fragment, appended in
\* event order; the text is found by trying the delta's content, then a
\* text field, then the first choice itself as the source, first match
\* wins; an event with no choices or with no text contributes nothing and
\* is no error; the sequence ends exactly when the stream is exhausted.
C9_OrderedChain ==
    /\ \A e \in Events : LoopedOn(e) =>
          /\ Len(chat.emitted) <= 1
          /\ chat.out = chat.before \o chat.emitted
          /\ ~chat.failed /\ ~chat.raised
          /\ (~e.choices \/ AllTexts(e) = {""}) => chat.emitted = <<>>
          /\ (e.choices /\ e.delta.content # "") => chat.emitted = <<e.delta.content>>
          /\ (e.choices /\ {e.delta.content, e.delta.text, e.content, e.text} # {""})
                => chat.emitted # <<>>
    /\ chat.exhausted => chat.pc = "done" /\ ~chat.failed
    /\ (chat.pc = "done" /\ chat.path # "none") => (chat.exhausted \/ chat.failed)

\* The one source the new client path reads: the delta if it is truthy, else
\* the message if it is truthy, else the first choice itself.
C9_NewClientSource(e) ==
    CASE SourceTruthy(e.delta) -> e.delta
      [] ~SourceTruthy(e.delta) /\ SourceTruthy(e.message) -> e.message
      [] OTHER -> [content |-> e.content, text |-> e.text]

C9_Text(path, e) ==
    IF ~e.choices THEN ""
    ELSE IF path = "new"
    THEN IF C9_NewClientSource(e).content # "" THEN C9_NewClientSource(e).content
         ELSE C9_NewClientSource(e).text
    ELSE IF e.delta.content # "" THEN e.delta.content ELSE e.text

\* C9 amended: each event contributes at most one fragment, appended in
\* event order.  With the new client the text is read from one source, the
\* first truthy of the choice's delta, its message and the choice itself:
\* that source's content, else its text, with no fallback to another source
\* when the chosen one has no text.  With the legacy SDK the text is the
\* delta's content, else the choice's text field.  An event with no choices
\* or with no text there contributes nothing and is no error; the sequence
\* ends exactly when the stream is exhausted.
C9_OneSource ==
    /\ \A e \in Events : LoopedOn(e) =>
          /\ Len(chat.emitted) <= 1
          /\ chat.out = chat.before \o chat.emitted
          /\ ~chat.failed /\ ~chat.raised
          /\ chat.emitted = IF C9_Text(chat.path, e) = "" THEN <<>>
                            ELSE <<C9_Text(chat.path, e)>>
    /\ chat.exhausted => chat.pc = "done" /\ ~chat.failed
    /\ (chat.pc = "done" /\ chat.path # "none") => (chat.exhausted \/ chat.failed)

C9_Witness ==
    /\ chat.pc = "looped"
    /\ chat.path = "new"
    /\ chat.n = 2
    /\ chat.before = <<"dc">>
    /\ chat.event = <<[choices |-> TRUE, delta |-> Source("", "", TRUE),
                       message |-> NoSource, content |-> "", text |-> "ft"]>>
    /\ chat.emitted = <<>>
    /\ chat.out = <<"dc">>

\* C10 as stated: an invocation leaves the credential environment variables
\* and the SDK module state as they were when it was called.
C10_ReadOnly ==
    /\ chat.environ = chat.environ0
    /\ chat.legacy_api_key = chat.legacy0

\* C10 amended: an invocation never changes OPENAI_KEY, never changes an
\* OPENAI_API_KEY that is set (even to the empty string), and writes nothing
\* when no credential is resolvable or no SDK is installed; but with a
\* credential it writes process-wide state that outlives the call: with the
\* new client, an unset OPENAI_API_KEY is set to the credential found in
\* OPENAI_KEY; with the legacy SDK, openai_legacy.api_key is set to the
\* credential.
C10_WritesOnlyDefaults ==
    /\ chat.environ.OPENAI_KEY = chat.environ0.OPENAI_KEY
    /\ chat.environ0.OPENAI_API_KEY # Unset
          => chat.environ.OPENAI_API_KEY = chat.environ0.OPENAI_API_KEY
    /\ chat.environ # chat.environ0
          => /\ chat.path = "new"
             /\ HoldsCredential(chat.environ0.OPENAI_KEY)
             /\ chat.environ.OPENAI_API_KEY = chat.environ0.OPENAI_KEY
    /\ chat.legacy_api_key # chat.legacy0
          => /\ chat.path = "legacy"
             /\ chat.legacy_api_key = Credential(chat.environ0)
    /\ (chat.path = "new" /\ chat.environ0.OPENAI_API_KEY = Unset)
          => chat.environ.OPENAI_API_KEY = chat.environ0.OPENAI_KEY
    /\ chat.path = "legacy" => chat.legacy_api_key = Credential(chat.environ0)
    /\ (NoCredential(chat.environ0) \/ ~chat.openai_legacy)
          => chat.environ = chat.environ0 /\ chat.legacy_api_key = chat.legacy0

C10_Witness ==
    /\ chat.pc = "done"
    /\ chat.entry = "stream_messages"
    /\ chat.environ0 = [OPENAI_API_KEY |-> Unset, OPENAI_KEY |-> "sk-B"]
    /\ chat.environ = [OPENAI_API_KEY |-> "sk-B", OPENAI_KEY |-> "sk-B"]

(***************************************************************************)
(* app.py: the page script.  Streamlit runs main() from the top after each *)
(* user action; st.session_state and the widget values persist between     *)
(* runs.  An action below is one user action with every script run it      *)
(* causes (st.rerun() starts the script again at once).                    *)
(***************************************************************************)
MaxResults == 2
MaxMessages == 5

\* st.session_state["selected"]: None, or the tuple (museum, art).
Selection(label, art) == [t |-> "tuple", museum_label |-> label, art |-> art]

\* The artworks a search brings to the page: a complete CMA record, a CMA
\* record whose images field is null, and two MET records.
AppCmaArtworks ==
    {PyDict({<<"images", PyDict({<<"web", PyDict({<<"url", PyStr("u")>>})>>})>>,
             <<"title", PyStr("x")>>,
             <<"creators", PyList(<<PyDict({<<"description", PyStr("d")>>})>>)>>,
             <<"creation_date", PyStr("1889")>>}),
     PyDict({<<"images", PyNone>>, <<"title", PyStr("x")>>})}

AppMetArtworks ==
    {PyDict({<<"primaryImageSmall", PyStr("x")>>, <<"title", PyStr("x")>>,
             <<"artist", PyStr("x")>>, <<"objectDate", PyStr("1889")>>}),
     PyDict({<<"title", PyStr("x")>>, <<"objectDate", PyStr("1889")>>})}

\* What fx_search(museum, ...) gives the page: a list of the provider's
\* records, or an exception of the primary request.
SearchOutcomes(m) ==
    {Raised("RequestException")}
    \cup {Returned(l) :
            l \in SeqsUpTo(IF m = CMA_LABEL THEN AppCmaArtworks ELSE AppMetArtworks,
                           MaxResults)}

SysMsg == Message("system", Content(get_system_prompt, PyNone))
UserMsg(art) == Message("user", Content("... Here is the metadata: ", art))
Prompt == Message("user", Content("prompt", PyNone))
Reply == Message("assistant", Content("reply", PyNone))

\* The outcomes of OpenAI(api_key=...) followed by chat.completions.create.
LlmOutcomes == {"ok", "no_client", "create_fails"}

NoWidgets == [sidebar |-> {}, back |-> FALSE, view |-> {}, chat_input |-> FALSE]

SidebarButtons == <<"Search", "Surprise Me", "What's New?">>

\* The arguments each button passes to fx_search besides the museum: the
\* text input's value, or "*", and highlight.
Request(button) ==
    CASE button = "Search" -> [q |-> "van gogh", highlight |-> FALSE]
      [] button = "Surprise Me" -> [q |-> "*", highlight |-> FALSE]
      [] button = "What's New?" -> [q |-> "*", highlight |-> TRUE]

\* What the user did to start a run.
NoInput ==
    [pressed |-> "", returned |-> Returned(<<>>), back |-> FALSE, view |-> 0,
     prompt |-> FALSE, llm1 |-> "ok", llm2 |-> "ok"]

\* A script run in progress: the session state, the history of labels, the
\* normalizer calls made, the widgets drawn, and how the run goes on.
Running(ss, fw, made) ==
    [ss |-> ss, fw |-> fw, calls |-> made, widgets |-> NoWidgets, stop |-> "run"]

\* One call of fx_search_result by the page.
Call(label, art, fetched) ==
    [api_label |-> label, artwork |-> art, fetched_with |-> fetched,
     ok |-> fx_search_result(label, art).ok]

\* with st.sidebar: the selectbox and the three search buttons.
Sidebar(r, m, in) ==
    LET k == IF \E j \in 1..3 : SidebarButtons[j] = in.pressed
             THEN CHOOSE j \in 1..3 : SidebarButtons[j] = in.pressed
             ELSE 0
    IN  IF k > 0 /\ ~in.returned.ok
        THEN [r EXCEPT !.widgets.sidebar =
                           {"Museum"} \cup {SidebarButtons[j] : j \in 1..k},
                       !.stop = "exception"]
        ELSE [r EXCEPT !.widgets.sidebar = {"Museum"} \cup Range(SidebarButtons),
                       !.ss.results = IF k > 0 THEN in.returned.value ELSE @,
                       !.fw.results = IF k > 0 THEN m ELSE @,
                       !.fw.request = IF k > 0 THEN Request(in.pressed) ELSE @]

\* The first position of results at which fx_search_result(m, .) raises,
\* Len(results) + 1 when there is none.
FirstRaise(m, results) ==
    LET bad == {i \in 1..Len(results) : ~fx_search_result(m, results[i]).ok}
    IN  IF bad = {} THEN Len(results) + 1
        ELSE CHOOSE i \in bad : \A j \in bad : i <= j

\* The loop over the result cards, drawn with the sidebar's museum.
Grid(r, m, in) ==
    LET results == r.ss.results
        raise == FirstRaise(m, results)
        GridCalls(n) == [i \in 1..n |-> Call(m, results[i], r.fw.results)]
    IN  IF in.view > 0
        THEN [r EXCEPT !.calls = @ \o GridCalls(in.view),
                       !.widgets.view = 1..in.view,
                       !.ss.selected = Selection(m, results[in.view]),
                       !.fw.selected = r.fw.results,
                       !.stop = "rerun"]
        ELSE [r EXCEPT !.calls = @ \o GridCalls(Min(raise, Len(results))),
                       !.widgets.view = 1..(raise - 1),
                       !.stop = IF raise <= Len(results) THEN "exception" ELSE @]

\* with col1: Back to Results, then the selected artwork or the grid.
LeftColumn(r, m, in) ==
    IF r.stop # "run" THEN r
    ELSE
    LET selected == r.ss.selected IN
    IF selected # PyNone
    THEN IF in.back
         THEN [r EXCEPT !.widgets.back = TRUE,
                        !.ss.selected = PyNone,
                        !.fw.selected = NoLabel,
                        !.stop = "rerun"]
         ELSE LET call == Call(selected.museum_label, selected.art, r.fw.selected)
              IN  [r EXCEPT !.widgets.back = TRUE,
                            !.calls = Append(@, call),
                            !.stop = IF call.ok THEN @ ELSE "exception"]
    ELSE Grid(r, m, in)

\* with col2: the summary of the selected artwork, then the chat input.
Summary(r, in) ==
    IF r.ss.selected = PyNone THEN r
    ELSE IF in.llm1 # "ok"
    THEN [r EXCEPT !.ss.messages = <<SysMsg, UserMsg(r.ss.selected.art)>>,
                   !.stop = "exception"]
    ELSE [r EXCEPT !.ss.messages = <<SysMsg, UserMsg(r.ss.selected.art), Reply>>]

ChatInputBox(r, in) ==
    IF r.stop # "run" THEN r
    ELSE IF ~in.prompt THEN [r EXCEPT !.widgets.chat_input = TRUE]
    ELSE IF in.llm2 = "no_client"
    THEN [r EXCEPT !.widgets.chat_input = TRUE, !.stop = "exception"]
    ELSE IF in.llm2 = "create_fails"
    THEN [r EXCEPT !.widgets.chat_input = TRUE,
                   !.ss.messages = Append(@, Prompt),
                   !.stop = "exception"]
    ELSE [r EXCEPT !.widgets.chat_input = TRUE,
                   !.ss.messages = @ \o <<Prompt, Reply>>]

RightColumn(r, in) ==
    IF r.stop # "run" THEN r ELSE ChatInputBox(Summary(r, in), in)

\* One run of main().
RunOnce(r, m, in) == RightColumn(LeftColumn(Sidebar(r, m, in), m, in), in)

\* A user action: the run it starts and, after st.rerun(), the run that
\* follows with no widget triggered.
main(m, ss, fw, in) ==
    LET first == RunOnce(Running(ss, fw, <<>>), m, in)
    IN  IF first.stop = "rerun"
        THEN RunOnce(Running(first.ss, first.fw, first.calls), m,
                     [NoInput EXCEPT !.llm1 = in.llm1])
        ELSE first

Rendered(m, r) ==
    /\ museum' = m
    /\ session_state' = r.ss
    /\ fetched_with' = r.fw
    /\ calls' = r.calls
    /\ widgets' = r.widgets
    /\ UNCHANGED <<nvars, svars, cvars>>

\* The summary request is made only while an artwork is selected.
SummaryOutcomes == IF session_state.selected = PyNone THEN {"ok"} ELSE LlmOutcomes

\* The user picks the other museum in the sidebar selectbox.
ChooseMuseum ==
    \E m \in {CMA_LABEL, MET_LABEL}, llm1 \in SummaryOutcomes :
        /\ "Museum" \in widgets.sidebar
        /\ m # museum
        /\ \E r \in {main(m, session_state, fetched_with,
                            [NoInput EXCEPT !.llm1 = llm1])} :
              Rendered(m, r)

\* The run a sidebar button starts.
Pressed(button, returned, llm1) ==
    main(museum, session_state, fetched_with,
         [NoInput EXCEPT !.pressed = button, !.returned = returned,
                         !.llm1 = llm1])

Search ==
    \E returned \in SearchOutcomes(museum), llm1 \in SummaryOutcomes :
        /\ "Search" \in widgets.sidebar
        /\ \E r \in {Pressed("Search", returned, llm1)} : Rendered(museum, r)

SurpriseMe ==
    \E returned \in SearchOutcomes(museum), llm1 \in SummaryOutcomes :
        /\ "Surprise Me" \in widgets.sidebar
        /\ \E r \in {Pressed("Surprise Me", returned, llm1)} : Rendered(museum, r)

WhatsNew ==
    \E returned \in SearchOutcomes(museum), llm1 \in SummaryOutcomes :
        /\ "What's New?" \in widgets.sidebar
        /\ \E r \in {Pressed("What's New?", returned, llm1)} : Rendered(museum, r)

View ==
    \E i \in widgets.view, llm1 \in LlmOutcomes :
        /\ session_state.selected = PyNone
        /\ \E r \in {main(museum, session_state, fetched_with,
                                 [NoInput EXCEPT !.view = i, !.llm1 = llm1])} :
              Rendered(museum, r)

BackToResults ==
    /\ widgets.back
    /\ \E r \in {main(museum, session_state, fetched_with,
                             [NoInput EXCEPT !.back = TRUE])} :
              Rendered(museum, r)

ChatInput ==
    \E llm1 \in SummaryOutcomes, llm2 \in LlmOutcomes :
        /\ widgets.chat_input
        /\ session_state.selected = PyNone
              => Len(session_state.messages) + 2 <= MaxMessages
        /\ \E r \in {main(museum, session_state, fetched_with,
                                 [NoInput EXCEPT !.prompt = TRUE,
                                                 !.llm1 = llm1, !.llm2 = llm2])} :
              Rendered(museum, r)

InitApp ==
    /\ UiIdle
    /\ NormIdle
    /\ SearchIdle
    /\ ChatIdle

NextApp ==
    \/ ChooseMuseum
    \/ Search
    \/ SurpriseMe
    \/ WhatsNew
    \/ View
    \/ BackToResults
    \/ ChatInput

SpecApp == InitApp /\ [][NextApp]_vars

(***************************************************************************)
(* Claims about the page (SpecApp).                                        *)
(***************************************************************************)

\* C11: every fx_search_result call the page makes, in the result grid and
\* in the detail view, passes the label of the search that fetched the
\* artwork, whatever the sidebar museum has been changed to since.
C11_NormalizedWithFetchLabel ==
    \A i \in 1..Len(calls) : calls[i].api_label = calls[i].fetched_with

====
